---- MODULE Spec2Model ----
(***************************************************************************)
(* The share-of-voice pivot engine of src/types.ts (processData, its entry *)
(* point fetchDataAndProcess and the export downloadExcel) and the         *)
(* Dashboard component of src/App.tsx that calls it, as a state machine.   *)
(* A JavaScript string is a sequence of one-character strings,             *)
(* so that split, replace, startsWith, parseInt and the '|'-joined object  *)
(* keys are computed character by character.  Brand and category values    *)
(* are compared for equality, and sorted through an explicit order, and    *)
(* are kept as atomic strings.  A JavaScript number that results from a    *)
(* division is an exact fraction <<numerator, denominator>>.               *)
(***************************************************************************)
EXTENDS Integers, Sequences, FiniteSets, TLC

(***************************************************************************)
(* Bounds of the model.                                                    *)
(***************************************************************************)
MaxRows == 3

\* The most fetches the Dashboard's effect starts.
MaxFetches == 3

(***************************************************************************)
(* A loop over an array (forEach, for ... of, the scan of a string): the   *)
(* value the body leaves after the last element, starting from init.  The  *)
(* accumulator is bound to its value before the body is applied to it.     *)
(***************************************************************************)
Fold(Body(_, _), init, s) ==
    LET F[i \in 0..Len(s)] ==
            IF i = 0 THEN init
            ELSE CHOOSE out \in {Body(acc, s[i]) : acc \in {F[i - 1]}} : TRUE
    IN  F[Len(s)]

(***************************************************************************)
(* Text.                                                                   *)
(***************************************************************************)
\* The value of an absent field of a parsed CSV row.
Undefined == <<"undefined">>

Null == <<"null">>

UndefinedText == <<"u", "n", "d", "e", "f", "i", "n", "e", "d">>

\* String(x), as a template literal or parseInt applies it to its argument.
ToStr(x) == IF x = Undefined THEN UndefinedText ELSE x

\* JavaScript truthiness of a string, undefined or null.
Truthy(x) == x # Undefined /\ x # Null /\ x # <<>>

Digits == <<"0", "1", "2", "3", "4", "5", "6", "7", "8", "9">>

IsDigit(c) == \E i \in 1..10 : Digits[i] = c

DigitVal(c) == (CHOOSE i \in 1..10 : Digits[i] = c) - 1

WhiteSpace == {" "}

\* The characters of the model's texts in UTF-16 code unit order.
CodeUnitOrder ==
    <<" ", "'", "-", "0", "1", "2", "3", "4", "5", "6", "7", "8", "9",
      "A", "B", "C", "D", "E", "F", "G", "H", "I", "J", "K", "L", "M",
      "N", "O", "P", "Q", "R", "S", "T", "U", "V", "W", "X", "Y", "Z", "_",
      "a", "b", "c", "d", "e", "f", "g", "h", "i", "j", "k", "l", "m",
      "n", "o", "p", "q", "r", "s", "t", "u", "v", "w", "x", "y", "z", "|">>

CodeUnit(c) == CHOOSE i \in 1..Len(CodeUnitOrder) : CodeUnitOrder[i] = c

\* The same characters in the order of the default (root) collation that
\* String.prototype.localeCompare uses: white space, punctuation, symbols,
\* digits, letters.  Letters differ by case only at the third level; the
\* texts that the model compares this way are spelled in one consistent case
\* (an upper-case initial), for which the level-by-level comparison is the
\* lexicographic one over this order.
CollationOrder ==
    <<" ", "_", "-", "'", "|", "0", "1", "2", "3", "4", "5", "6", "7", "8", "9",
      "a", "A", "b", "B", "c", "C", "d", "D", "e", "E", "f", "F", "g", "G",
      "h", "H", "i", "I", "j", "J", "k", "K", "l", "L", "m", "M", "n", "N",
      "o", "O", "p", "P", "q", "Q", "r", "R", "s", "S", "t", "T", "u", "U",
      "v", "V", "w", "W", "x", "X", "y", "Y", "z", "Z">>

CollationRank(c) == CHOOSE i \in 1..Len(CollationOrder) : CollationOrder[i] = c

\* The length of the longest common prefix of two texts.
CommonPrefix(a, b) ==
    LET m == IF Len(a) < Len(b) THEN Len(a) ELSE Len(b)
        same == {k \in 0..m : \A i \in 1..k : a[i] = b[i]}
    IN  CHOOSE k \in same : \A j \in same : j <= k

\* The sign (-1, 0, 1) of the comparison of two strings by code units, the
\* order Array.prototype.sort uses when it is given no comparator.
CompareCodeUnits(a, b) ==
    LET k == CommonPrefix(a, b)
    IN  IF k = Len(a) /\ k = Len(b) THEN 0
        ELSE IF k = Len(a) THEN -1
        ELSE IF k = Len(b) THEN 1
        ELSE IF CodeUnit(a[k + 1]) < CodeUnit(b[k + 1]) THEN -1 ELSE 1

\* a.localeCompare(b).
LocaleCompare(a, b) ==
    LET k == CommonPrefix(a, b)
    IN  IF k = Len(a) /\ k = Len(b) THEN 0
        ELSE IF k = Len(a) THEN -1
        ELSE IF k = Len(b) THEN 1
        ELSE IF CollationRank(a[k + 1]) < CollationRank(b[k + 1]) THEN -1 ELSE 1

\* s.split(sep) for a separator that is one character out of seps: the
\* segments between the separators, empty segments kept.
Split(s, seps) ==
    LET Scan(done, c) ==
            IF c \in seps THEN Append(done, <<>>)
            ELSE [done EXCEPT ![Len(done)] = Append(@, c)]
    IN  Fold(Scan, << <<>> >>, s)

\* s.replace(c, by) for one-character strings: the first occurrence only.
ReplaceFirst(s, c, by) ==
    LET hits == {i \in 1..Len(s) : s[i] = c}
    IN  IF hits = {} THEN s
        ELSE LET h == CHOOSE i \in hits : \A j \in hits : i <= j
             IN  [s EXCEPT ![h] = by]

\* s.startsWith(p).
StartsWith(s, p) ==
    /\ Len(p) <= Len(s)
    /\ \A i \in 1..Len(p) : s[i] = p[i]

NaN == [nan |-> TRUE, val |-> 0]

Num(n) == [nan |-> FALSE, val |-> n]

\* parseInt(s, 10): leading white space is skipped, an optional sign is read,
\* then the longest run of decimal digits; NaN when there is no digit.
ParseInt(s) ==
    LET ws      == {k \in 0..Len(s) : \A i \in 1..k : s[i] \in WhiteSpace}
        skipped == CHOOSE k \in ws : \A j \in ws : j <= k
        signed  == skipped < Len(s) /\ s[skipped + 1] \in {"-", "+"}
        first   == IF signed THEN skipped + 2 ELSE skipped + 1
        runs    == {k \in (first - 1)..Len(s) : \A i \in first..k : IsDigit(s[i])}
        last    == CHOOSE k \in runs : \A j \in runs : j <= k
        Value[i \in (first - 1)..last] ==
            IF i = first - 1 THEN 0 ELSE 10 * Value[i - 1] + DigitVal(s[i])
    IN  IF last < first THEN NaN
        ELSE IF signed /\ s[skipped + 1] = "-" THEN Num(0 - Value[last])
        ELSE Num(Value[last])

(***************************************************************************)
(* Program constants.                                                      *)
(***************************************************************************)
Bar == <<"|">>

UnknownText == <<"U", "n", "k", "n", "o", "w", "n">>

SovSuffix == <<" ", "S", "O", "V">>

MorningSov == <<"M", "o", "r", "n", "i", "n", "g", " ", "S", "O", "V">>

EveningSov == <<"E", "v", "e", "n", "i", "n", "g", " ", "S", "O", "V">>

BRANDS_TO_CLUB ==
    [b \in {"Modern", "Baker's Loaf", "Harvest Gold"} |-> "BIN"]

VISIBLE_BRANDS ==
    <<"BIN", "Britannia", "Bonn", "English Oven", "The Health Factory",
      "Protein Chef", "The Baker's Dozen">>

monthOrder ==
    << <<"J", "a", "n">>, <<"F", "e", "b">>, <<"M", "a", "r">>,
       <<"A", "p", "r">>, <<"M", "a", "y">>, <<"J", "u", "n">>,
       <<"J", "u", "l">>, <<"A", "u", "g">>, <<"S", "e", "p">>,
       <<"O", "c", "t">>, <<"N", "o", "v">>, <<"D", "e", "c">> >>

desiredSlotOrder == <<MorningSov, EveningSov>>

SovTypes == {"Overall", "Ad", "Organic"}

(***************************************************************************)
(* Sequences, as the code uses arrays.                                     *)
(***************************************************************************)
\* The elements of a sequence.
Range(s) == {s[i] : i \in 1..Len(s)}

\* arr.includes(x) / set.has(x).
Includes(s, x) == \E i \in 1..Len(s) : s[i] = x

\* arr.indexOf(x), counted from 0, -1 when absent.
IndexOf(s, x) ==
    IF Includes(s, x)
    THEN (CHOOSE i \in 1..Len(s) : s[i] = x /\ \A j \in 1..(i - 1) : s[j] # x) - 1
    ELSE -1

\* [...new Set(arr)]: each value once, in the order of first occurrence.
Unique(s) ==
    LET Add(seen, x) == IF Includes(seen, x) THEN seen ELSE Append(seen, x)
    IN  Fold(Add, <<>>, s)

\* arr.sort(Cmp): Array.prototype.sort is stable, and every comparator of
\* the code is the difference of a key of its two arguments, so the result is
\* the one of a stable insertion: each element goes behind the last element
\* that does not compare greater than it.
Sort(s, Cmp(_, _)) ==
    LET Insert(t, x) ==
            LET notAfter == {i \in 1..Len(t) : Cmp(t[i], x) <= 0}
                k == IF notAfter = {} THEN 0
                     ELSE CHOOSE i \in notAfter : \A j \in notAfter : j <= i
            IN  SubSeq(t, 1, k) \o <<x>> \o SubSeq(t, k + 1, Len(t))
    IN  Fold(Insert, <<>>, s)

\* arr.map(f).
Map(s, f(_)) == [i \in 1..Len(s) |-> f(s[i])]

(***************************************************************************)
(* Numbers.  A quotient is the exact fraction <<n, d>> in lowest terms     *)
(* with d > 0, so that two quotients are equal exactly when the pairs are. *)
(***************************************************************************)
Abs(n) == IF n < 0 THEN 0 - n ELSE n

RECURSIVE Gcd(_, _)
Gcd(a, b) == IF b = 0 THEN a ELSE Gcd(b, a % b)

Frac(n, d) ==
    LET g == Gcd(Abs(n), d)
    IN  <<n \div g, d \div g>>

Zero == Frac(0, 1)

FracAdd(x, y) == Frac(x[1] * y[2] + y[1] * x[2], x[2] * y[2])

\* The sign of x - y.
FracCompare(x, y) ==
    LET l == x[1] * y[2]
        r == y[1] * x[2]
    IN  IF l < r THEN -1 ELSE IF l > r THEN 1 ELSE 0

(***************************************************************************)
(* parseImpressions and parseMonthYearToDate.                              *)
(***************************************************************************)
parseImpressions(value) ==
    LET num == ParseInt(ToStr(value))
    IN  IF num.nan THEN 0 ELSE num.val

\* The month of new Date(0), counted in months from year 0.
EpochMonths == 1970 * 12

\* new Date(year, monthIndex, 1).getTime(), counted in months from year 0: a
\* year from 0 to 99 is taken as 1900 + year by the Date constructor.  Both
\* dates that the code compares are the first instant of a month, and no
\* month string parses to a month next to the epoch, so the order of the
\* times is the order of the months.
DateMonths(year, monthIndex) ==
    (IF year >= 0 /\ year <= 99 THEN 1900 + year ELSE year) * 12 + monthIndex

parseMonthYearToDate(monthStr) ==
    LET parts      == Split(monthStr, {"'"})
        monthName  == parts[1]
        yearStr    == IF Len(parts) >= 2 THEN parts[2] ELSE Undefined
        found      == {i \in 1..Len(monthOrder) : StartsWith(monthName, monthOrder[i])}
        monthIndex == IF found = {} THEN -1
                      ELSE (CHOOSE i \in found : \A j \in found : i <= j) - 1
        year       == ParseInt(<<"2", "0">> \o ToStr(yearStr))
    IN  IF monthIndex = -1 \/ year.nan THEN EpochMonths
        ELSE DateMonths(year.val, monthIndex)

(***************************************************************************)
(* processData, step 1: the malformed-row filter, the normalization and    *)
(* the category filter.                                                    *)
(***************************************************************************)
\* null as an element of rawData.  The filter tests the row itself before it
\* reads a field of it, and nothing else of the code sees the row; the model
\* gives it the fields of a row, each holding null (as a text, or as an atomic
\* value where the field is a brand or a category).
RowFields ==
    {"GC_PLATFORM", "CITY", "CRAWL_MONTH_SLOT", "CRAWL_MONTH", "SLOT", "CATEGORY",
     "BRAND", "TOTAL_IMPRESSIONS", "AD_IMPRESSIONS", "ORGANIC_IMPRESSIONS"}

NullRow == [f \in RowFields |-> IF f \in {"BRAND", "CATEGORY"} THEN "null" ELSE Null]

\* WellFormed with a slip: only null is excluded.
WellFormedNotNull(row) == row # NullRow

WellFormed(row) ==
    /\ row # NullRow
    /\ \/ Truthy(row.CRAWL_MONTH) /\ Truthy(row.SLOT)
       \/ Truthy(row.CRAWL_MONTH_SLOT)

\* ClubBrand with a slip: only one of the three brands is consolidated.
ClubBrandModernOnly(b) == IF b = "Modern" THEN "BIN" ELSE b

ClubBrand(b) == IF b \in DOMAIN BRANDS_TO_CLUB THEN BRANDS_TO_CLUB[b] ELSE b

NormalizeMonthSlot(row) ==
    IF Truthy(row.CRAWL_MONTH) /\ Truthy(row.SLOT)
    THEN [month |-> ReplaceFirst(row.CRAWL_MONTH, "-", "'"),
          slot  |-> Split(row.SLOT, {"_"} \cup WhiteSpace)[1] \o SovSuffix]
    ELSE IF Truthy(row.CRAWL_MONTH_SLOT)
    THEN LET parts     == Split(row.CRAWL_MONTH_SLOT, {"_"})
             monthStr  == parts[1]
             slotParts == SubSeq(parts, 2, Len(parts))
         IN  [month |-> IF monthStr # <<>> THEN ReplaceFirst(monthStr, "-", "'")
                        ELSE UnknownText,
              slot  |-> (IF Len(slotParts) > 0 THEN slotParts[1] ELSE UnknownText)
                        \o SovSuffix]
    ELSE [month |-> UnknownText, slot |-> UnknownText \o SovSuffix]

NormalizeRow(row) ==
    [platform |-> row.GC_PLATFORM,
     city     |-> row.CITY,
     category |-> row.CATEGORY,
     month    |-> NormalizeMonthSlot(row).month,
     slot     |-> NormalizeMonthSlot(row).slot,
     brand    |-> ClubBrand(row.BRAND),
     total    |-> parseImpressions(row.TOTAL_IMPRESSIONS),
     ad       |-> parseImpressions(row.AD_IMPRESSIONS),
     organic  |-> parseImpressions(row.ORGANIC_IMPRESSIONS)]

\* CleanedData with a slip: the category filter is left out.
CleanedDataAllCategories(raw, selected) ==
    Map(SelectSeq(raw, WellFormed), NormalizeRow)

CleanedData(raw, selected) ==
    LET keep(row) == row.category \in selected
    IN  SelectSeq(Map(SelectSeq(raw, WellFormed), NormalizeRow), keep)

(***************************************************************************)
(* processData, step 2: the aggregation by group.  An object of the code   *)
(* is a function from its keys (texts); a key is added when it is first    *)
(* assigned.                                                               *)
(***************************************************************************)
EmptyObject == <<>>

NoImpressions == [total |-> 0, ad |-> 0, organic |-> 0]

Put(obj, key, value) ==
    IF key \in DOMAIN obj THEN [obj EXCEPT ![key] = value]
    ELSE (key :> value) @@ obj

AddImpressions(sums, row) ==
    [total   |-> sums.total + row.total,
     ad      |-> sums.ad + row.ad,
     organic |-> sums.organic + row.organic]

GroupKey(platform, city, month, slot) ==
    platform \o Bar \o city \o Bar \o month \o Bar \o slot

\* One iteration of the forEach of step 2 on the pair of objects
\* (groupImpressions, groupTotals).
AggregateRow(acc, row) ==
    LET key    == GroupKey(row.platform, row.city, row.month, row.slot)
        brands == IF key \in DOMAIN acc.groupImpressions
                  THEN acc.groupImpressions[key] ELSE EmptyObject
        before == IF row.brand \in DOMAIN brands
                  THEN brands[row.brand] ELSE NoImpressions
        totals == IF key \in DOMAIN acc.groupTotals
                  THEN acc.groupTotals[key] ELSE NoImpressions
    IN  [groupImpressions |->
             Put(acc.groupImpressions, key,
                 Put(brands, row.brand, AddImpressions(before, row))),
         groupTotals |-> Put(acc.groupTotals, key, AddImpressions(totals, row))]

Aggregate(cleaned) ==
    Fold(AggregateRow,
         [groupImpressions |-> EmptyObject, groupTotals |-> EmptyObject], cleaned)

(***************************************************************************)
(* processData, step 3: the dimensions and the header tree.                *)
(***************************************************************************)
Sign(n) == IF n < 0 THEN -1 ELSE IF n > 0 THEN 1 ELSE 0

CompareMonths(a, b) == Sign(parseMonthYearToDate(a) - parseMonthYearToDate(b))

CompareSlots(a, b) == Sign(IndexOf(desiredSlotOrder, a) - IndexOf(desiredSlotOrder, b))

MonthOf(r) == r.month

SlotOf(r) == r.slot

BrandOf(r) == r.brand

UniqueMonths(cleaned) == Sort(Unique(Map(cleaned, MonthOf)), CompareMonths)

\* UniqueSlots with a slip: the recognised slots in input order, not sorted.
UniqueSlotsUnsorted(cleaned) ==
    LET desired(slot) == Includes(desiredSlotOrder, slot)
    IN  SelectSeq(Unique(Map(cleaned, SlotOf)), desired)

UniqueSlots(cleaned) ==
    LET desired(slot) == Includes(desiredSlotOrder, slot)
    IN  Sort(SelectSeq(Unique(Map(cleaned, SlotOf)), desired), CompareSlots)

\* UniqueBrands with a slip: every brand of the data, in input order.
UniqueBrandsInDataOrder(cleaned) == Unique(Map(cleaned, BrandOf))

UniqueBrands(cleaned) ==
    LET allBrandsInData == Range(Map(cleaned, BrandOf))
        present(brand)  == brand \in allBrandsInData
    IN  SelectSeq(VISIBLE_BRANDS, present)

Headers(uniqueMonths, uniqueSlots, uniqueBrands) ==
    [months |->
         [i \in 1..Len(uniqueMonths) |->
              [name  |-> uniqueMonths[i],
               slots |-> [j \in 1..Len(uniqueSlots) |->
                              [name |-> uniqueSlots[j], brands |-> uniqueBrands]]]],
     allBrands |-> uniqueBrands]

EmptyHeaders == [months |-> <<>>, allBrands |-> <<>>]

(***************************************************************************)
(* processData, step 4: the SOV values of every (platform, city) pair.     *)
(***************************************************************************)
PairKey(platform, city) == platform \o Bar \o city

PairKeyOf(r) == PairKey(r.platform, r.city)

\* pc.split('|') destructured into its first two segments.
SplitPair(pc) ==
    LET parts == Split(pc, {"|"})
    IN  [platform |-> parts[1], city |-> parts[2]]

PlatformCityPairs(cleaned) == Map(Unique(Map(cleaned, PairKeyOf)), SplitPair)

\* totalMetric > 0 ? (brandMetric / totalMetric) * 100 : 0
SovValue(brandMetric, totalMetric) ==
    IF totalMetric > 0 THEN Frac(100 * brandMetric, totalMetric) ELSE Zero

SovCell(agg, platform, city, month, slot, brand) ==
    LET impressionKey == GroupKey(platform, city, month, slot)
        impressions == IF impressionKey \in DOMAIN agg.groupImpressions
                       THEN agg.groupImpressions[impressionKey] ELSE EmptyObject
        totals == IF impressionKey \in DOMAIN agg.groupTotals
                  THEN agg.groupTotals[impressionKey] ELSE NoImpressions
        brandImpressions == IF brand \in DOMAIN impressions
                            THEN impressions[brand] ELSE NoImpressions
    IN  [Overall |-> SovValue(brandImpressions.total, totals.total),
         Ad      |-> SovValue(brandImpressions.ad, totals.ad),
         Organic |-> SovValue(brandImpressions.organic, totals.organic)]

RowData(agg, platform, city, uniqueMonths, uniqueSlots, uniqueBrands) ==
    [month \in Range(uniqueMonths) |->
        [slot \in Range(uniqueSlots) |->
            [brand \in Range(uniqueBrands) |->
                SovCell(agg, platform, city, month, slot, brand)]]]

AllSovData(agg, pairs, uniqueMonths, uniqueSlots, uniqueBrands) ==
    [key \in {PairKey(pairs[i].platform, pairs[i].city) : i \in 1..Len(pairs)} |->
        LET p == CHOOSE q \in Range(pairs) : PairKey(q.platform, q.city) = key
        IN  RowData(agg, p.platform, p.city, uniqueMonths, uniqueSlots, uniqueBrands)]

(***************************************************************************)
(* processData, step 5: the platforms in default sort order and, inside a  *)
(* platform, the cities by BIN's SOV of the latest month.                  *)
(***************************************************************************)
PlatformOf(p) == p.platform

LatestMonth(uniqueMonths) ==
    IF Len(uniqueMonths) > 0 THEN uniqueMonths[Len(uniqueMonths)] ELSE Undefined

getBinSov(allSovData, latestMonth, uniqueSlots, cityData) ==
    LET key == PairKey(cityData.platform, cityData.city)
        AddSlot(totalBinSov, slot) ==
            FracAdd(totalBinSov, allSovData[key][latestMonth][slot]["BIN"].Overall)
    IN  IF key \in DOMAIN allSovData /\ latestMonth \in DOMAIN allSovData[key]
        THEN Fold(AddSlot, Zero, uniqueSlots) ELSE Zero

\* CompareCities with a slip: the difference taken the other way round.
CompareCitiesAscending(allSovData, latestMonth, uniqueSlots, uniqueBrands, a, b) ==
    IF ~Truthy(latestMonth) \/ ~Includes(uniqueBrands, "BIN")
    THEN LocaleCompare(a.city, b.city)
    ELSE FracCompare(getBinSov(allSovData, latestMonth, uniqueSlots, a),
                     getBinSov(allSovData, latestMonth, uniqueSlots, b))

CompareCities(allSovData, latestMonth, uniqueSlots, uniqueBrands, a, b) ==
    IF ~Truthy(latestMonth) \/ ~Includes(uniqueBrands, "BIN")
    THEN LocaleCompare(a.city, b.city)
    ELSE FracCompare(getBinSov(allSovData, latestMonth, uniqueSlots, b),
                     getBinSov(allSovData, latestMonth, uniqueSlots, a))

UniquePlatforms(pairs) == Sort(Unique(Map(pairs, PlatformOf)), CompareCodeUnits)

SortedPlatformCityPairs(allSovData, pairs, uniqueMonths, uniqueSlots, uniqueBrands) ==
    LET Cmp(a, b) == CompareCities(allSovData, LatestMonth(uniqueMonths),
                                   uniqueSlots, uniqueBrands, a, b)
        Push(sorted, platform) ==
            LET same(p) == p.platform = platform
            IN  sorted \o Sort(SelectSeq(pairs, same), Cmp)
    IN  Fold(Push, <<>>, UniquePlatforms(pairs))

(***************************************************************************)
(* processData, step 6: the rows.                                          *)
(***************************************************************************)
BuildRows(allSovData, sorted) ==
    [i \in 1..Len(sorted) |->
        LET lastPlatform == IF i = 1 THEN <<>> ELSE sorted[i - 1].platform
        IN  [platform          |-> sorted[i].platform,
             city              |-> sorted[i].city,
             isFirstInPlatform |-> sorted[i].platform # lastPlatform,
             data |-> allSovData[PairKey(sorted[i].platform, sorted[i].city)]]]

(***************************************************************************)
(* processData as a whole, with the values of its local variables: a       *)
(* local variable is bound to its value where the code assigns it.         *)
(***************************************************************************)
EmptyResult(cleaned) ==
    [cleanedData |-> cleaned,
     groupImpressions |-> EmptyObject, groupTotals |-> EmptyObject,
     headers |-> EmptyHeaders, rows |-> <<>>]

PivotResult(cleaned) ==
    CHOOSE out \in
        {[cleanedData |-> cleaned,
          groupImpressions |-> agg.groupImpressions,
          groupTotals |-> agg.groupTotals,
          headers |-> Headers(months, slots, brands),
          rows |-> BuildRows(sov,
                     SortedPlatformCityPairs(sov, pairs, months, slots, brands))] :
            <<agg, months, slots, brands, pairs, sov>> \in
                {<<a, m, s, b, p, AllSovData(a, p, m, s, b)>> :
                    a \in {Aggregate(cleaned)}, m \in {UniqueMonths(cleaned)},
                    s \in {UniqueSlots(cleaned)}, b \in {UniqueBrands(cleaned)},
                    p \in {PlatformCityPairs(cleaned)}}} : TRUE

processData(raw, selected) ==
    CHOOSE out \in
        {IF Len(cleaned) = 0 THEN EmptyResult(cleaned) ELSE PivotResult(cleaned) :
            cleaned \in {CleanedData(raw, selected)}} : TRUE

(***************************************************************************)
(* fetchDataAndProcess: what the complete callback computes from the rows  *)
(* of the parsed sheet (results.data).                                     *)
(***************************************************************************)
\* The category values of the model in UTF-16 code unit order, the order of
\* Array.prototype.sort without a comparator.
CategoryOrder == <<"", "Bread", "Cake">>

CompareCategories(a, b) ==
    Sign(IndexOf(CategoryOrder, a) - IndexOf(CategoryOrder, b))

CategoryOf(r) == r.CATEGORY

\* Boolean(category): the empty string and the null of a blank record are
\* falsy.
TruthyCategory(category) == category # "" /\ category # NullRow.CATEGORY

AllCategories(raw) ==
    Sort(Unique(SelectSeq(Map(raw, CategoryOf), TruthyCategory)), CompareCategories)

\* EffectiveSelection with a slip: the selection is passed on as it is.
EffectiveSelectionAsGiven(selected, allCats) == selected

\* selectedCategories.length > 0 ? selectedCategories : allCategories
EffectiveSelection(selected, allCats) ==
    IF selected # {} THEN selected ELSE Range(allCats)

\* What the promise of fetchDataAndProcess(selected) resolves with when the
\* parsed sheet is raw: { ...pivotedData, rawData, allCategories }.
fetchDataAndProcess(raw, selected) ==
    CHOOSE data \in
        {[headers |-> p[2].headers, rows |-> p[2].rows,
          rawData |-> raw, allCategories |-> p[1]] :
            p \in {<<cats, processData(raw, EffectiveSelection(selected, cats))>> :
                      cats \in {AllCategories(raw)}}} : TRUE

(***************************************************************************)
(* downloadExcel: the array of arrays and the merges handed to the         *)
(* worksheet.  Rows and columns are counted from 0 in the merges, as in    *)
(* the code; the cells of a row are a sequence, so column c is element     *)
(* c + 1.                                                                  *)
(***************************************************************************)
EmptyCell == <<>>

\* parseFloat(value.toFixed(2)): the nearest multiple of 1/100, a tie going
\* away from 0.
Round2(value) ==
    LET hundredths == (2 * 100 * Abs(value[1]) + value[2]) \div (2 * value[2])
    IN  Frac(IF value[1] < 0 THEN 0 - hundredths ELSE hundredths, 100)

\* MergeSpan with a slip: the span ends one column too far.
MergeSpanTooWide(r, col, span) ==
    [s |-> [r |-> r, c |-> col], e |-> [r |-> r, c |-> col + span]]

\* { s: { r, c: col }, e: { r, c: col + span - 1 } }
MergeSpan(r, col, span) ==
    [s |-> [r |-> r, c |-> col], e |-> [r |-> r, c |-> col + span - 1]]

\* One label followed by the empty cells of its span, and its merge.
PushLabel(acc, r, name, span) ==
    [cells  |-> acc.cells \o <<name>> \o
                    [i \in 1..(IF span > 1 THEN span - 1 ELSE 0) |-> EmptyCell],
     merges |-> IF span > 1 THEN Append(acc.merges, MergeSpan(r, acc.col, span))
                ELSE acc.merges,
     col    |-> acc.col + span]

HeaderStart(merges) == [cells |-> <<EmptyCell, EmptyCell>>, merges |-> merges, col |-> 2]

MonthHeader(headers) ==
    LET AddBrands(span, slot) == span + Len(slot.brands)
        Month(acc, month) == PushLabel(acc, 0, month.name, Fold(AddBrands, 0, month.slots))
    IN  Fold(Month, HeaderStart(<<>>), headers.months)

SlotHeader(headers, merges) ==
    LET Slot(acc, slot) == PushLabel(acc, 1, slot.name, Len(slot.brands))
        Month(acc, month) == Fold(Slot, acc, month.slots)
    IN  Fold(Month, HeaderStart(merges), headers.months)

PlatformLabel == "Platform"

CityLabel == "City"

BrandHeader(headers) ==
    LET Slot(cells, slot) == cells \o slot.brands
        Month(cells, month) == Fold(Slot, cells, month.slots)
    IN  Fold(Month, <<PlatformLabel, CityLabel>>, headers.months)

\* CellValue with a slip: the overall metric whatever the metric kind.
CellValueOverall(row, month, slot, brand, sovType) ==
    IF /\ month \in DOMAIN row.data
       /\ slot \in DOMAIN row.data[month]
       /\ brand \in DOMAIN row.data[month][slot]
    THEN row.data[month][slot][brand]["Overall"]
    ELSE Zero

\* row.data[month.name]?.[slot.name]?.[brand]?.[sovType] ?? 0
CellValue(row, month, slot, brand, sovType) ==
    IF /\ month \in DOMAIN row.data
       /\ slot \in DOMAIN row.data[month]
       /\ brand \in DOMAIN row.data[month][slot]
       /\ sovType \in DOMAIN row.data[month][slot][brand]
    THEN row.data[month][slot][brand][sovType]
    ELSE Zero

FlatRow(headers, row, sovType) ==
    LET Month(cells, month) ==
            LET OfSlot(acc, slot) ==
                    LET Push(inner, brand) ==
                            Append(inner, Round2(CellValue(row, month.name, slot.name,
                                                           brand, sovType)))
                    IN  Fold(Push, acc, slot.brands)
            IN  Fold(OfSlot, cells, month.slots)
    IN  Fold(Month, <<row.platform, row.city>>, headers.months)

downloadExcel(data, sovType) ==
    CHOOSE out \in
        {[aoa |-> <<monthHeader.cells, slotHeader.cells, BrandHeader(data.headers)>>
                      \o [i \in 1..Len(data.rows) |->
                             FlatRow(data.headers, data.rows[i], sovType)],
          merges |-> slotHeader.merges] :
            <<monthHeader, slotHeader>> \in
                {<<m, SlotHeader(data.headers, m.merges)>> :
                    m \in {MonthHeader(data.headers)}}} : TRUE

(***************************************************************************)
(* The raw rows the model feeds to processData: the row of the             *)
(* specification's end-to-end scenario, varied one group of fields at a    *)
(* time.                                                                   *)
(***************************************************************************)
Swiggy == <<"S", "w", "i", "g", "g", "y">>

SwiggyBarMumbai == <<"S", "w", "i", "g", "g", "y", "|", "M", "u", "m", "b", "a", "i">>

Mumbai == <<"M", "u", "m", "b", "a", "i">>

Delhi == <<"D", "e", "l", "h", "i">>

MumbaiBarDelhi == <<"M", "u", "m", "b", "a", "i", "|", "D", "e", "l", "h", "i">>

Jan24 == <<"J", "a", "n", "-", "2", "4">>

Mar24 == <<"M", "a", "r", "-", "2", "4">>

Q124 == <<"Q", "1", "-", "2", "4">>

Jan5 == <<"J", "a", "n", "-", "5">>

DelhiBarJan24 == <<"D", "e", "l", "h", "i", "|", "J", "a", "n", "-", "2", "4">>

MorningSlot == <<"M", "o", "r", "n", "i", "n", "g", "_", "S", "l", "o", "t">>

EveningSpaceSlot == <<"E", "v", "e", "n", "i", "n", "g", " ", "S", "l", "o", "t">>

EveningSlot == <<"E", "v", "e", "n", "i", "n", "g", "_", "S", "l", "o", "t">>

LowerEveningSlot == <<"e", "v", "e", "n", "i", "n", "g", "_", "s", "l", "o", "t">>

Dec23 == <<"D", "e", "c", "-", "2", "3">>

NoMonthMorning == <<"_", "M", "o", "r", "n", "i", "n", "g">>

Jan24NoSlot == <<"J", "a", "n", "-", "2", "4", "_">>

\* (TOTAL_IMPRESSIONS, AD_IMPRESSIONS, ORGANIC_IMPRESSIONS) as the CSV holds them.
Counts100x40x60 == << <<"1", "0", "0">>, <<"4", "0">>, <<"6", "0">> >>

Counts100x10x90 == << <<"1", "0", "0">>, <<"1", "0">>, <<"9", "0">> >>

CountsOdd == << <<"-", "5", "0">>, <<>>, <<"7", "x">> >>

RawRow(platform, city, monthSlot, month, slot, category, brand, counts) ==
    [GC_PLATFORM |-> platform, CITY |-> city, CRAWL_MONTH_SLOT |-> monthSlot,
     CRAWL_MONTH |-> month, SLOT |-> slot, CATEGORY |-> category, BRAND |-> brand,
     TOTAL_IMPRESSIONS |-> counts[1], AD_IMPRESSIONS |-> counts[2],
     ORGANIC_IMPRESSIONS |-> counts[3]]

BaseRow(brand, counts) ==
    RawRow(Swiggy, Mumbai, Undefined, Jan24, MorningSlot, "Bread", brand, counts)

\* Rows of one group that differ in brand and impression counts: the two
\* rows of the scenario, a brand that is not displayed, the other brands that
\* are consolidated and the brand they are consolidated to.
BrandRows ==
    {BaseRow("Modern", Counts100x40x60), BaseRow("Britannia", Counts100x10x90),
     BaseRow("Amul", CountsOdd), BaseRow("Baker's Loaf", Counts100x10x90),
     BaseRow("Harvest Gold", Counts100x40x60), BaseRow("BIN", Counts100x10x90)}

\* Rows that differ in platform and city.
PlaceRows ==
    {RawRow(place[1], place[2], Undefined, Jan24, MorningSlot, "Bread", "Modern",
            Counts100x40x60) :
        place \in {<< <<>>, Mumbai>>, <<Swiggy, Delhi>>,
                   <<SwiggyBarMumbai, Delhi>>, <<Swiggy, MumbaiBarDelhi>>}}
    \cup
    {RawRow(Swiggy, Delhi, Undefined, Jan24, MorningSlot, "Bread", "Britannia",
            Counts100x10x90)}

\* Rows that differ in month and slot, in either schema.
TimeRows ==
    {RawRow(Swiggy, Mumbai, Undefined, month, MorningSlot, "Bread", "Modern",
            Counts100x40x60) : month \in {Mar24, Q124, Jan5}}
    \cup
    {RawRow(Swiggy, Mumbai, Undefined, Jan24, slot, "Bread", "Modern",
            Counts100x40x60) : slot \in {EveningSpaceSlot, EveningSlot, LowerEveningSlot}}
    \cup
    {RawRow(Swiggy, Mumbai, monthSlot, Undefined, Undefined, "Bread", "Modern",
            Counts100x40x60) : monthSlot \in {Dec23, NoMonthMorning, Jan24NoSlot}}
    \cup
    {RawRow(Swiggy, Delhi, Undefined, DelhiBarJan24, MorningSlot, "Bread",
            "Britannia", Counts100x10x90)}

\* A row of another category, a row without a slot and null.
OtherRows ==
    {RawRow(Swiggy, Mumbai, Undefined, Jan24, MorningSlot, "Cake", "Modern",
            Counts100x40x60),
     RawRow(Swiggy, Mumbai, Undefined, Jan24, <<>>, "Bread", "Modern",
            Counts100x40x60),
     NullRow}

RawRows == BrandRows \cup PlaceRows \cup TimeRows \cup OtherRows

Selections == {{"Bread"}, {"Bread", "Cake"}}

(***************************************************************************)
(* The rows of the sheet that the model feeds to fetchDataAndProcess and,  *)
(* through it, to downloadExcel: one row of the scenario and rows that     *)
(* add a brand, a month and a slot, a slot that is not recognised, a brand *)
(* that is not displayed, another category and no category.                *)
(***************************************************************************)
SheetRows ==
    {BaseRow("Modern", Counts100x40x60), BaseRow("Britannia", Counts100x10x90),
     BaseRow("Amul", CountsOdd),
     RawRow(Swiggy, Delhi, Undefined, Mar24, EveningSlot, "Bread", "Britannia",
            Counts100x10x90),
     RawRow(Swiggy, Mumbai, Undefined, Jan24, LowerEveningSlot, "Bread", "Modern",
            Counts100x40x60),
     RawRow(Swiggy, Mumbai, Undefined, Jan24, MorningSlot, "Cake", "Modern",
            Counts100x40x60),
     RawRow(Swiggy, Mumbai, Undefined, Jan24, MorningSlot, "", "Modern",
            Counts100x10x90)}

FetchSelections == {{}, {"Bread"}, {"Bread", "Cake"}, {"", "Bread", "Cake"}}

(***************************************************************************)
(* The state machine: the rows of the parsed sheet arrive one by one, then *)
(* processData is called on them with a category selection, directly or    *)
(* by the complete callback of fetchDataAndProcess; downloadExcel is       *)
(* called on the result.                                                   *)
(***************************************************************************)
VARIABLES
    rawData,             \* the rows handed to processData
    selectedCategories,  \* its second argument
    pc,                  \* "rows" while the input is built, "done" after the call
    cleanedData,         \* processData's local variables after the call
    groupImpressions,
    groupTotals,
    pivotedData,         \* the value processData returned
    requestedCategories, \* the argument of fetchDataAndProcess
    allCategories,       \* the categories it resolves with
    sovType,             \* the second argument of downloadExcel
    aoa,                 \* downloadExcel's local variables after the call
    merges,
    dashboard,           \* the state of the Dashboard component
    fetches              \* the fetches its effect has started

vars == <<rawData, selectedCategories, pc, cleanedData, groupImpressions,
          groupTotals, pivotedData, requestedCategories, allCategories,
          sovType, aoa, merges, dashboard, fetches>>

\* The Dashboard before its first render: the initial values of its useState
\* and useRef hooks.  error is FALSE for null, sameArray tells that
\* selectedCategories is the very array that allCategories is, and
\* effectPending that a render has scheduled the effect on [selectedCategories].
InitialDashboard ==
    [loading            |-> TRUE,
     error              |-> FALSE,
     pivotedData        |-> [headers |-> EmptyHeaders, rows |-> <<>>],
     rawData            |-> <<>>,
     allCategories      |-> <<>>,
     selectedCategories |-> {},
     sameArray          |-> FALSE,
     isInitialLoad      |-> TRUE,
     effectPending      |-> FALSE]

NoFetches == [inFlight |-> {}, started |-> 0, failed |-> 0]

Init ==
    /\ rawData = <<>>
    /\ selectedCategories = {}
    /\ pc = "rows"
    /\ cleanedData = <<>>
    /\ groupImpressions = EmptyObject
    /\ groupTotals = EmptyObject
    /\ pivotedData = [headers |-> EmptyHeaders, rows |-> <<>>]
    /\ requestedCategories = {}
    /\ allCategories = <<>>
    /\ sovType = "Overall"
    /\ aoa = <<>>
    /\ merges = <<>>
    /\ dashboard = InitialDashboard
    /\ fetches = NoFetches

\* One more row of results.data.
LoadRow(row) ==
    /\ pc = "rows"
    /\ Len(rawData) < MaxRows
    /\ rawData' = Append(rawData, row)
    /\ UNCHANGED <<selectedCategories, pc, cleanedData, groupImpressions,
                   groupTotals, pivotedData, requestedCategories, allCategories,
                   sovType, aoa, merges, dashboard, fetches>>

\* The call processData(rawData, selected).
ProcessData(selected) ==
    /\ pc = "rows"
    /\ \E out \in {processData(rawData, selected)} :
           /\ cleanedData' = out.cleanedData
           /\ groupImpressions' = out.groupImpressions
           /\ groupTotals' = out.groupTotals
           /\ pivotedData' = [headers |-> out.headers, rows |-> out.rows]
    /\ selectedCategories' = selected
    /\ pc' = "done"
    /\ UNCHANGED <<rawData, requestedCategories, allCategories, sovType, aoa, merges,
                   dashboard, fetches>>

\* The complete callback of fetchDataAndProcess(requested), with rawData the
\* rows of the parsed sheet.
FetchDataAndProcess(requested) ==
    /\ pc = "rows"
    /\ \E cats \in {AllCategories(rawData)} :
       \E selected \in {EffectiveSelection(requested, cats)} :
       \E out \in {processData(rawData, selected)} :
           /\ allCategories' = cats
           /\ selectedCategories' = selected
           /\ cleanedData' = out.cleanedData
           /\ groupImpressions' = out.groupImpressions
           /\ groupTotals' = out.groupTotals
           /\ pivotedData' = [headers |-> out.headers, rows |-> out.rows]
    /\ requestedCategories' = requested
    /\ pc' = "done"
    /\ UNCHANGED <<rawData, sovType, aoa, merges, dashboard, fetches>>

\* A click on the Excel button, which is disabled while there is no row: the
\* call downloadExcel(pivotedData, type).
DownloadExcel(type) ==
    /\ pc = "done"
    /\ Len(pivotedData.rows) # 0
    /\ \E out \in {downloadExcel(pivotedData, type)} :
           /\ aoa' = out.aoa
           /\ merges' = out.merges
    /\ sovType' = type
    /\ UNCHANGED <<rawData, selectedCategories, pc, cleanedData, groupImpressions,
                   groupTotals, pivotedData, requestedCategories, allCategories,
                   dashboard, fetches>>

Next ==
    \/ \E row \in RawRows : LoadRow(row)
    \/ \E selected \in Selections : ProcessData(selected)

Spec == Init /\ [][Next]_vars

\* The report from the sheet to the exported matrix.
ReportNext ==
    \/ \E row \in SheetRows : LoadRow(row)
    \/ \E requested \in FetchSelections : FetchDataAndProcess(requested)
    \/ \E type \in SovTypes : DownloadExcel(type)

ReportSpec == Init /\ [][ReportNext]_vars

(***************************************************************************)
(* The Dashboard component of src/App.tsx: its effect on                   *)
(* [selectedCategories] starts a fetch, the handlers of the category       *)
(* dropdown change the selection, and each fetch completes on its own.     *)
(* State updates made in one callback are rendered together, and the       *)
(* effect a render schedules runs before the next event is handled.        *)
(***************************************************************************)
DashboardRows ==
    {BaseRow("Modern", Counts100x40x60),
     RawRow(Swiggy, Mumbai, Undefined, Jan24, MorningSlot, "Cake", "Britannia",
            Counts100x10x90)}

Mounted == pc = "mounted"

\* The Dashboard is rendered for the first time, over the sheet rawData.
Mount ==
    /\ pc = "rows"
    /\ pc' = "mounted"
    /\ dashboard' = [InitialDashboard EXCEPT !.effectPending = TRUE]
    /\ UNCHANGED <<rawData, selectedCategories, cleanedData, groupImpressions,
                   groupTotals, pivotedData, requestedCategories, allCategories,
                   sovType, aoa, merges, fetches>>

\* The effect: setLoading(true); fetchDataAndProcess(selectedCategories).
RunEffect ==
    /\ Mounted
    /\ dashboard.effectPending
    /\ fetches.started < MaxFetches
    /\ dashboard' = [dashboard EXCEPT !.loading = TRUE, !.effectPending = FALSE]
    /\ fetches' = [fetches EXCEPT
                       !.started = @ + 1,
                       !.inFlight = @ \cup {[n |-> fetches.started + 1,
                                             selectedCategories |->
                                                 dashboard.selectedCategories]}]
    /\ UNCHANGED <<rawData, selectedCategories, pc, cleanedData, groupImpressions,
                   groupTotals, pivotedData, requestedCategories, allCategories,
                   sovType, aoa, merges>>

\* The dropdown is rendered unless the Dashboard shows its error; a handler
\* runs once the effect of the last render has run.
DropdownReady ==
    /\ Mounted
    /\ ~dashboard.error
    /\ ~dashboard.effectPending
    /\ fetches.started < MaxFetches

isAllSelected ==
    /\ Len(dashboard.allCategories) > 0
    /\ Cardinality(dashboard.selectedCategories) = Len(dashboard.allCategories)

\* handleSelectAll.  setSelectedCategories(allCategories) with the array
\* that selectedCategories already is changes nothing.
HandleSelectAll ==
    /\ DropdownReady
    /\ isAllSelected \/ ~dashboard.sameArray
    /\ dashboard' =
           IF isAllSelected
           THEN [dashboard EXCEPT !.selectedCategories = {}, !.sameArray = FALSE,
                                  !.effectPending = TRUE]
           ELSE [dashboard EXCEPT
                    !.selectedCategories = Range(dashboard.allCategories),
                    !.sameArray = TRUE, !.effectPending = TRUE]
    /\ UNCHANGED <<rawData, selectedCategories, pc, cleanedData, groupImpressions,
                   groupTotals, pivotedData, requestedCategories, allCategories,
                   sovType, aoa, merges, fetches>>

\* handleCategoryToggle(category), for a category the dropdown lists.
HandleCategoryToggle(category) ==
    /\ DropdownReady
    /\ category \in Range(dashboard.allCategories)
    /\ dashboard' =
           [dashboard EXCEPT
               !.selectedCategories =
                   IF category \in @ THEN @ \ {category} ELSE @ \cup {category},
               !.sameArray = FALSE,
               !.effectPending = TRUE]
    /\ UNCHANGED <<rawData, selectedCategories, pc, cleanedData, groupImpressions,
                   groupTotals, pivotedData, requestedCategories, allCategories,
                   sovType, aoa, merges, fetches>>

\* The then and finally callbacks of a fetch that resolves.
FetchResolves(fetch) ==
    /\ Mounted
    /\ ~dashboard.effectPending
    /\ fetch \in fetches.inFlight
    /\ \E data \in {fetchDataAndProcess(rawData, fetch.selectedCategories)} :
           dashboard' =
               IF dashboard.isInitialLoad /\ Len(data.allCategories) > 0
               THEN [dashboard EXCEPT
                        !.pivotedData = [headers |-> data.headers, rows |-> data.rows],
                        !.rawData = data.rawData,
                        !.error = FALSE,
                        !.allCategories = data.allCategories,
                        !.selectedCategories = Range(data.allCategories),
                        !.sameArray = TRUE,
                        !.isInitialLoad = FALSE,
                        !.effectPending = TRUE,
                        !.loading = FALSE]
               ELSE [dashboard EXCEPT
                        !.pivotedData = [headers |-> data.headers, rows |-> data.rows],
                        !.rawData = data.rawData,
                        !.error = FALSE,
                        !.loading = FALSE]
    /\ fetches' = [fetches EXCEPT !.inFlight = @ \ {fetch}]
    /\ UNCHANGED <<rawData, selectedCategories, pc, cleanedData, groupImpressions,
                   groupTotals, pivotedData, requestedCategories, allCategories,
                   sovType, aoa, merges>>

\* The catch and finally callbacks of a fetch that rejects.
FetchRejects(fetch) ==
    /\ Mounted
    /\ ~dashboard.effectPending
    /\ fetch \in fetches.inFlight
    /\ dashboard' = [dashboard EXCEPT !.error = TRUE, !.loading = FALSE]
    /\ fetches' = [fetches EXCEPT !.inFlight = @ \ {fetch}, !.failed = @ + 1]
    /\ UNCHANGED <<rawData, selectedCategories, pc, cleanedData, groupImpressions,
                   groupTotals, pivotedData, requestedCategories, allCategories,
                   sovType, aoa, merges>>

Fetches ==
    [n : 1..MaxFetches, selectedCategories : SUBSET {"Bread", "Cake"}]

DashboardNext ==
    \/ \E row \in DashboardRows : LoadRow(row)
    \/ Mount
    \/ RunEffect
    \/ HandleSelectAll
    \/ \E category \in {"Bread", "Cake"} : HandleCategoryToggle(category)
    \/ \E fetch \in Fetches : FetchResolves(fetch)
    \/ \E fetch \in Fetches : FetchRejects(fetch)

DashboardSpec == Init /\ [][DashboardNext]_vars

(***************************************************************************)
(* What the claims speak of, stated on the records themselves and not on   *)
(* the objects the code builds from them.                                  *)
(***************************************************************************)
Done == pc = "done"

Rows == pivotedData.rows

HeaderMonths == [i \in 1..Len(pivotedData.headers.months) |->
                    pivotedData.headers.months[i].name]

HeaderSlots(i) == [j \in 1..Len(pivotedData.headers.months[i].slots) |->
                      pivotedData.headers.months[i].slots[j].name]

DisplayBrands == pivotedData.headers.allBrands

\* The impression field that each SOV metric is the share of.
CounterOf == [Overall |-> "total", Ad |-> "ad", Organic |-> "organic"]

SumOf(numbers) ==
    LET S[i \in 0..Len(numbers)] ==
            IF i = 0 THEN 0 ELSE S[i - 1] + numbers[i]
    IN  S[Len(numbers)]

InGroup(r, platform, city, month, slot) ==
    r.platform = platform /\ r.city = city /\ r.month = month /\ r.slot = slot

\* The sum of a counter over the filtered records of a group.
GroupSum(counter, platform, city, month, slot) ==
    LET member(r) == InGroup(r, platform, city, month, slot)
        of == SelectSeq(cleanedData, member)
    IN  SumOf([i \in 1..Len(of) |-> of[i][counter]])

\* The same for the records of one brand.
BrandSum(counter, platform, city, month, slot, brand) ==
    LET member(r) == InGroup(r, platform, city, month, slot) /\ r.brand = brand
        of == SelectSeq(cleanedData, member)
    IN  SumOf([i \in 1..Len(of) |-> of[i][counter]])

\* C1: after the aggregation, for every group (platform, city, month, slot)
\* of the filtered records and each counter, the group-wide total equals the
\* sum of the per-brand sums of the group's bucket, and both equal the sum of
\* the counter over all filtered records of the group, displayed brand or not.
C1_GroupTotalIsSumOfBrands ==
    Done =>
        \A n \in 1..Len(cleanedData) : \A counter \in {"total", "ad", "organic"} :
            LET r      == cleanedData[n]
                key    == GroupKey(r.platform, r.city, r.month, r.slot)
                brands == Unique([i \in 1..Len(cleanedData) |-> cleanedData[i].brand])
                perBrand == [i \in 1..Len(brands) |->
                                IF brands[i] \in DOMAIN groupImpressions[key]
                                THEN groupImpressions[key][brands[i]][counter]
                                ELSE 0]
            IN  /\ key \in DOMAIN groupTotals
                /\ key \in DOMAIN groupImpressions
                /\ groupTotals[key][counter] = SumOf(perBrand)
                /\ groupTotals[key][counter] =
                       GroupSum(counter, r.platform, r.city, r.month, r.slot)

\* The share the specification defines: 100 * part / whole for a positive
\* whole, else 0.
Share(part, whole) == IF whole > 0 THEN Frac(100 * part, whole) ELSE Zero

\* C2: for every output row, every resolved month and slot and every display
\* brand, each SOV metric is 100 * (the brand's sum in that group) / (the
\* group-wide sum) when the group-wide sum is positive, and 0 otherwise.
C2_SovIsShareOfGroup ==
    Done =>
        \A n \in 1..Len(Rows) : \A i \in 1..Len(HeaderMonths) :
            \A j \in 1..Len(HeaderSlots(i)) : \A k \in 1..Len(DisplayBrands) :
                \A metric \in SovTypes :
                    LET row   == Rows[n]
                        month == HeaderMonths[i]
                        slot  == HeaderSlots(i)[j]
                        brand == DisplayBrands[k]
                    IN  row.data[month][slot][brand][metric] =
                            Share(BrandSum(CounterOf[metric], row.platform, row.city,
                                           month, slot, brand),
                                  GroupSum(CounterOf[metric], row.platform, row.city,
                                           month, slot))

ScenarioRows ==
    <<BaseRow("Modern", Counts100x40x60), BaseRow("Britannia", Counts100x10x90)>>

Jan24Month == <<"J", "a", "n", "'", "2", "4">>

\* The end-to-end scenario: one group with totals 200/50/150 and BIN at
\* 50, 80 and 40 percent.
C2_Witness ==
    /\ Done
    /\ rawData = ScenarioRows
    /\ selectedCategories = {"Bread"}
    /\ DOMAIN groupTotals = {GroupKey(Swiggy, Mumbai, Jan24Month, MorningSov)}
    /\ groupTotals[GroupKey(Swiggy, Mumbai, Jan24Month, MorningSov)] =
           [total |-> 200, ad |-> 50, organic |-> 150]
    /\ Len(Rows) = 1
    /\ Rows[1].data[Jan24Month][MorningSov]["BIN"] =
           [Overall |-> <<50, 1>>, Ad |-> <<80, 1>>, Organic |-> <<40, 1>>]

\* C3: every percentage of every row lies in [0, 100], whatever text the
\* impression fields hold.
C3_PercentagesInRange ==
    Done =>
        \A n \in 1..Len(Rows) : \A i \in 1..Len(HeaderMonths) :
            \A j \in 1..Len(HeaderSlots(i)) : \A k \in 1..Len(DisplayBrands) :
                \A metric \in SovTypes :
                    LET pct == Rows[n].data[HeaderMonths[i]][HeaderSlots(i)[j]]
                                   [DisplayBrands[k]][metric]
                    IN  0 <= pct[1] /\ pct[1] <= 100 * pct[2]

\* The ranking key of a row: the sum over the resolved slots of BIN's overall
\* SOV in the latest resolved month; 0 when there is no resolved month or
\* BIN is not displayed.
RankingKey(row) ==
    IF Len(HeaderMonths) = 0 \/ ~Includes(DisplayBrands, "BIN") THEN Zero
    ELSE LET latest == Len(HeaderMonths)
             slots  == HeaderSlots(latest)
             S[j \in 0..Len(slots)] ==
                 IF j = 0 THEN Zero
                 ELSE FracAdd(S[j - 1],
                              row.data[HeaderMonths[latest]][slots[j]]["BIN"].Overall)
         IN  S[Len(slots)]

\* C4: inside one platform, when a latest resolved month exists and BIN is
\* displayed, a city with a strictly greater ranking key comes before a city
\* with a smaller one.
C4_GreaterKeyRanksFirst ==
    Done /\ Len(HeaderMonths) > 0 /\ Includes(DisplayBrands, "BIN") =>
        \A i, j \in 1..Len(Rows) :
            /\ Rows[i].platform = Rows[j].platform
            /\ FracCompare(RankingKey(Rows[i]), RankingKey(Rows[j])) > 0
            => i < j

\* Two cities of one platform given in alphabetical order and ranked the
\* other way round, by their keys.
C4_Witness ==
    /\ Done
    /\ Includes(DisplayBrands, "BIN")
    /\ Len(rawData) >= 2
    /\ rawData[1].CITY = Delhi
    /\ rawData[2].CITY = Mumbai
    /\ Len(Rows) = 2
    /\ Rows[1].platform = Swiggy /\ Rows[2].platform = Swiggy
    /\ Rows[1].city = Mumbai /\ Rows[2].city = Delhi
    /\ FracCompare(RankingKey(Rows[1]), RankingKey(Rows[2])) > 0
    /\ FracCompare(RankingKey(Rows[2]), Zero) > 0

\* C5: inside one platform, two cities with equal ranking keys appear in
\* alphabetical order of their names, whatever the order of the input.
C5_TiesAreAlphabetical ==
    Done =>
        \A i, j \in 1..Len(Rows) :
            /\ i < j
            /\ Rows[i].platform = Rows[j].platform
            /\ RankingKey(Rows[i]) = RankingKey(Rows[j])
            => LocaleCompare(Rows[i].city, Rows[j].city) <= 0

\* C6: the rows are one row for each distinct (platform, city) pair of the
\* filtered records, with that pair's platform and city, in contiguous
\* platform blocks in ascending order of the platform name.
C6_OneRowPerPairInPlatformOrder ==
    Done =>
        /\ \A n \in 1..Len(cleanedData) :
               Cardinality({i \in 1..Len(Rows) :
                               /\ Rows[i].platform = cleanedData[n].platform
                               /\ Rows[i].city = cleanedData[n].city}) = 1
        /\ \A i \in 1..Len(Rows) :
               \E n \in 1..Len(cleanedData) :
                   /\ Rows[i].platform = cleanedData[n].platform
                   /\ Rows[i].city = cleanedData[n].city
        /\ \A i, j \in 1..Len(Rows) :
               i < j => CompareCodeUnits(Rows[i].platform, Rows[j].platform) <= 0

\* C7: a row is flagged isFirstInPlatform exactly when it is the first row or
\* its platform differs from the platform of the row before it.
C7_FirstInPlatformFlag ==
    Done =>
        \A i \in 1..Len(Rows) :
            Rows[i].isFirstInPlatform <=>
                (i = 1 \/ Rows[i].platform # Rows[i - 1].platform)

\* A month string as the claims read it: the name before the apostrophe
\* and the year after it.
MonthName(m) == Split(m, {"'"})[1]

YearText(m) == IF Len(Split(m, {"'"})) >= 2 THEN Split(m, {"'"})[2] ELSE <<>>

MonthIndexOf(m) ==
    CHOOSE k \in 1..Len(monthOrder) :
        /\ StartsWith(MonthName(m), monthOrder[k])
        /\ \A l \in 1..(k - 1) : ~StartsWith(MonthName(m), monthOrder[l])

Parsable(m) ==
    /\ \E k \in 1..Len(monthOrder) : StartsWith(MonthName(m), monthOrder[k])
    /\ ~ParseInt(YearText(m)).nan

\* (year, month-index) of a is not after (year, month-index) of b.
NotAfter(a, b) ==
    LET ya == ParseInt(YearText(a)).val
        yb == ParseInt(YearText(b)).val
    IN  ya < yb \/ (ya = yb /\ MonthIndexOf(a) <= MonthIndexOf(b))

\* C8: the header months are the distinct months of the filtered records,
\* each once; the parsable ones are in non-decreasing (year, month-index)
\* order and every unparsable one comes before every parsable one.
C8_MonthsChronological ==
    Done =>
        /\ Range(HeaderMonths) = {cleanedData[n].month : n \in 1..Len(cleanedData)}
        /\ \A i, j \in 1..Len(HeaderMonths) :
               i < j =>
                   /\ HeaderMonths[i] # HeaderMonths[j]
                   /\ Parsable(HeaderMonths[i]) /\ Parsable(HeaderMonths[j])
                          => NotAfter(HeaderMonths[i], HeaderMonths[j])
                   /\ ~(Parsable(HeaderMonths[i]) /\ ~Parsable(HeaderMonths[j]))

\* C9: under every header month the slots are the slots among "Morning SOV"
\* and "Evening SOV" that occur in the filtered records, Morning before
\* Evening; a row whose raw slot is "Evening_Slot" or "Evening Slot" makes
\* "Evening SOV" a header slot; no other slot is a header slot.
C9_SlotsInFixedOrder ==
    Done =>
        \A i \in 1..Len(HeaderMonths) :
            LET slots    == HeaderSlots(i)
                observed == {cleanedData[n].slot : n \in 1..Len(cleanedData)}
            IN  /\ Range(slots) = observed \cap {MorningSov, EveningSov}
                /\ \A a, b \in 1..Len(slots) :
                       a < b => slots[a] = MorningSov /\ slots[b] = EveningSov
                /\ \A n \in 1..Len(rawData) :
                       /\ Truthy(rawData[n].CRAWL_MONTH)
                       /\ rawData[n].SLOT \in {EveningSlot, EveningSpaceSlot}
                       /\ rawData[n].CATEGORY \in selectedCategories
                       => Includes(slots, EveningSov)

\* Evening rows in both spellings ahead of a Morning row.
C9_Witness ==
    /\ Done
    /\ Len(rawData) = 3
    /\ rawData[1].SLOT = EveningSpaceSlot
    /\ rawData[2].SLOT = EveningSlot
    /\ rawData[3].SLOT = MorningSlot
    /\ Len(HeaderMonths) = 1
    /\ HeaderSlots(1) = <<MorningSov, EveningSov>>

\* C10: the display brands are the brands of the allow-list that occur in
\* the filtered records, in the order of the allow-list, and the same list
\* stands under every month and slot of the header.
C10_BrandsFromAllowList ==
    Done =>
        LET observed == {cleanedData[n].brand : n \in 1..Len(cleanedData)}
        IN  /\ Range(DisplayBrands) = observed \cap Range(VISIBLE_BRANDS)
            /\ \A a, b \in 1..Len(DisplayBrands) :
                   a < b => IndexOf(VISIBLE_BRANDS, DisplayBrands[a]) <
                            IndexOf(VISIBLE_BRANDS, DisplayBrands[b])
            /\ \A i \in 1..Len(pivotedData.headers.months) :
                   \A j \in 1..Len(pivotedData.headers.months[i].slots) :
                       pivotedData.headers.months[i].slots[j].brands = DisplayBrands

\* Britannia ahead of a consolidated brand, and a brand that is not listed.
C10_Witness ==
    /\ Done
    /\ Len(rawData) = 3
    /\ rawData[1].BRAND = "Britannia"
    /\ rawData[2].BRAND = "Amul"
    /\ rawData[3].BRAND = "Modern"
    /\ Len(cleanedData) = 3
    /\ DisplayBrands = <<"BIN", "Britannia">>
    /\ Len(pivotedData.headers.months) > 0
    /\ Len(pivotedData.headers.months[1].slots) > 0

\* The raw records that pass the malformed-record filter and the category
\* filter, in input order: record i of cleanedData comes from record i of
\* this sequence.
Survives(row) ==
    /\ row # NullRow
    /\ \/ Truthy(row.CRAWL_MONTH) /\ Truthy(row.SLOT)
       \/ Truthy(row.CRAWL_MONTH_SLOT)
    /\ row.CATEGORY \in selectedCategories

Survivors == SelectSeq(rawData, Survives)

\* The brand a raw brand is consolidated to.
Canonical(brand) ==
    IF brand \in {"Modern", "Baker's Loaf", "Harvest Gold"} THEN "BIN" ELSE brand

BucketOf(r) == GroupKey(r.platform, r.city, r.month, r.slot)

\* C11: every filtered record carries the brand BIN when its raw brand is
\* "Modern", "Baker's Loaf" or "Harvest Gold" and its raw brand otherwise,
\* and the per-brand sums of the bucket it is accumulated in are, for every
\* brand, the sums over the records of that bucket whose raw brand is
\* consolidated to that brand (for BIN: the three raw brands and raw "BIN").
C11_BrandsConsolidated ==
    Done =>
        /\ Len(cleanedData) = Len(Survivors)
        /\ \A i \in 1..Len(cleanedData) :
               /\ cleanedData[i].brand = Canonical(Survivors[i].BRAND)
               /\ BucketOf(cleanedData[i]) \in DOMAIN groupImpressions
               /\ Canonical(Survivors[i].BRAND)
                      \in DOMAIN groupImpressions[BucketOf(cleanedData[i])]
        /\ \A key \in DOMAIN groupImpressions :
               \A brand \in DOMAIN groupImpressions[key] :
                   \A counter \in {"total", "ad", "organic"} :
                       LET from == {i \in 1..Len(cleanedData) :
                                       /\ BucketOf(cleanedData[i]) = key
                                       /\ Canonical(Survivors[i].BRAND) = brand}
                           Sum[i \in 0..Len(cleanedData)] ==
                               IF i = 0 THEN 0
                               ELSE Sum[i - 1] + (IF i \in from
                                                  THEN cleanedData[i][counter] ELSE 0)
                       IN  groupImpressions[key][brand][counter] =
                               Sum[Len(cleanedData)]

\* Two consolidated raw brands and a raw "BIN" record in one group: BIN is
\* the only brand of the bucket and holds the sum of the three.
C11_Witness ==
    /\ Done
    /\ Len(rawData) = 3
    /\ rawData[1].BRAND = "Baker's Loaf"
    /\ rawData[2].BRAND = "Harvest Gold"
    /\ rawData[3].BRAND = "BIN"
    /\ Len(cleanedData) = 3
    /\ DOMAIN groupImpressions = {GroupKey(Swiggy, Mumbai, Jan24Month, MorningSov)}
    /\ groupImpressions[GroupKey(Swiggy, Mumbai, Jan24Month, MorningSov)] =
           [b \in {"BIN"} |-> [total |-> 300, ad |-> 60, organic |-> 240]]

TupleOf(r) == <<r.platform, r.city, r.month, r.slot>>

\* C12: two filtered records are accumulated in the same bucket only if
\* their platform, city, month and slot are equal, and the bucket read for
\* the cell of a row under a header month and slot holds only records of
\* that row's platform and city, that month and that slot.
C12_OneBucketPerTuple ==
    Done =>
        /\ \A i, j \in 1..Len(cleanedData) :
               BucketOf(cleanedData[i]) = BucketOf(cleanedData[j])
                   => TupleOf(cleanedData[i]) = TupleOf(cleanedData[j])
        /\ \A n \in 1..Len(Rows) : \A m \in 1..Len(HeaderMonths) :
               \A k \in 1..Len(HeaderSlots(m)) : \A i \in 1..Len(cleanedData) :
                   BucketOf(cleanedData[i]) =
                       GroupKey(Rows[n].platform, Rows[n].city,
                                HeaderMonths[m], HeaderSlots(m)[k])
                   => TupleOf(cleanedData[i]) =
                          <<Rows[n].platform, Rows[n].city,
                            HeaderMonths[m], HeaderSlots(m)[k]>>

\* The slots and brands the header tree holds under its i-th month.
HeaderBrands(i, j) == pivotedData.headers.months[i].slots[j].brands

\* C13: the data of every row holds an entry with the three metrics for
\* every month, slot and brand of the header tree and for nothing else, and
\* where no filtered record has the row's platform and city, the month and
\* the slot, the three metrics of every brand are 0.
C13_RowDataCoversHeaderTree ==
    Done =>
        \A n \in 1..Len(Rows) :
            /\ DOMAIN Rows[n].data = Range(HeaderMonths)
            /\ \A i \in 1..Len(HeaderMonths) :
                   LET ofMonth == Rows[n].data[HeaderMonths[i]]
                   IN  /\ DOMAIN ofMonth = Range(HeaderSlots(i))
                       /\ \A j \in 1..Len(HeaderSlots(i)) :
                              LET ofSlot == ofMonth[HeaderSlots(i)[j]]
                                  absent ==
                                      \A r \in 1..Len(cleanedData) :
                                          TupleOf(cleanedData[r]) #
                                              <<Rows[n].platform, Rows[n].city,
                                                HeaderMonths[i], HeaderSlots(i)[j]>>
                              IN  /\ DOMAIN ofSlot = Range(HeaderBrands(i, j))
                                  /\ \A b \in DOMAIN ofSlot :
                                         /\ DOMAIN ofSlot[b] = SovTypes
                                         /\ absent =>
                                                \A metric \in SovTypes :
                                                    ofSlot[b][metric] = Zero

EmptyPivot == [headers |-> [months |-> <<>>, allBrands |-> <<>>], rows |-> <<>>]

\* C14: when no raw record passes the malformed-record filter and the
\* category filter, processData returns empty header months, an empty brand
\* list and no rows.
C14_EmptyWhenNothingSurvives ==
    Done /\ Survivors = <<>> => pivotedData = EmptyPivot

\* null, a record without a slot and a record of a category that is not
\* selected give the empty result.
C14_Witness ==
    /\ Done
    /\ Len(rawData) = 3
    /\ rawData[1] = NullRow
    /\ rawData[2] # NullRow /\ ~Truthy(rawData[2].SLOT) /\ ~Truthy(rawData[2].CRAWL_MONTH_SLOT)
    /\ rawData[3].CATEGORY = "Cake"
    /\ selectedCategories = {"Bread"}
    /\ Survivors = <<>>
    /\ pivotedData = EmptyPivot

\* A record that is null or has neither both CRAWL_MONTH and SLOT nor
\* CRAWL_MONTH_SLOT.
Malformed(row) ==
    \/ row = NullRow
    \/ /\ ~(Truthy(row.CRAWL_MONTH) /\ Truthy(row.SLOT))
       /\ ~Truthy(row.CRAWL_MONTH_SLOT)

\* C16: the result for an input is the result for the same input with every
\* malformed record taken out, so malformed records at any positions change
\* nothing.
C16_MalformedRecordsIgnored ==
    Done =>
        LET sound(row) == ~Malformed(row)
            out == processData(SelectSeq(rawData, sound), selectedCategories)
        IN  pivotedData = [headers |-> out.headers, rows |-> out.rows]

\* null before and a record without a slot behind a record that is kept.
C16_Witness ==
    /\ Done
    /\ Len(rawData) = 3
    /\ rawData[1] = NullRow
    /\ ~Malformed(rawData[2])
    /\ Malformed(rawData[3]) /\ rawData[3] # NullRow
    /\ rawData[3].CATEGORY \in selectedCategories
    /\ Len(cleanedData) = 1
    /\ Len(Rows) = 1

\* A text that is a number as the specification reads it: a non-empty run of
\* decimal digits.
Numeric(text) ==
    /\ text \notin {Undefined, Null, <<>>}
    /\ \A i \in 1..Len(text) : IsDigit(text[i])

ImpressionFields ==
    [total |-> "TOTAL_IMPRESSIONS", ad |-> "AD_IMPRESSIONS",
     organic |-> "ORGANIC_IMPRESSIONS"]

\* C17: each counter of a filtered record is a non-negative integer, and it
\* is 0 when the text of its field is empty or not numeric.
C17_CountersNonNegative ==
    Done =>
        \A i \in 1..Len(cleanedData) : \A counter \in DOMAIN ImpressionFields :
            /\ cleanedData[i][counter] \in Nat
            /\ ~Numeric(Survivors[i][ImpressionFields[counter]])
                   => cleanedData[i][counter] = 0

\* A record of the combined schema: only CRAWL_MONTH_SLOT is present.
Combined(row) ==
    ~Truthy(row.CRAWL_MONTH) /\ ~Truthy(row.SLOT) /\ Truthy(row.CRAWL_MONTH_SLOT)

Segments(row) == Split(row.CRAWL_MONTH_SLOT, {"_"})

\* C18: for a record of the combined schema the month is the first segment
\* of the field split at '_' with its hyphen replaced by an apostrophe, or
\* "Unknown" when that segment is empty; the slot is the second segment with
\* " SOV" behind it, or "Unknown SOV" when that segment is absent or empty.
C18_CombinedSchemaSplit ==
    Done =>
        \A i \in 1..Len(cleanedData) :
            Combined(Survivors[i]) =>
                LET segs == Segments(Survivors[i])
                IN  /\ cleanedData[i].month =
                           (IF segs[1] # <<>> THEN ReplaceFirst(segs[1], "-", "'")
                            ELSE UnknownText)
                    /\ cleanedData[i].slot =
                           (IF Len(segs) >= 2 /\ segs[2] # <<>> THEN segs[2]
                            ELSE UnknownText) \o SovSuffix

\* The category values that occur in the raw records.
ObservedCategories == {rawData[n].CATEGORY : n \in 1..Len(rawData)}

PivotOf(out) == [headers |-> out.headers, rows |-> out.rows]

\* C15, as the claim states it: fetchDataAndProcess with the empty selection
\* gives the headers and rows it gives with the selection of all category
\* values observed in the raw records.
C15_EmptySelectionIsAllObserved ==
    Done /\ requestedCategories = {} =>
        pivotedData = PivotOf(processData(rawData, ObservedCategories))

\* C15, amended: fetchDataAndProcess with the empty selection gives the
\* headers and rows it gives with the selection of all non-empty category
\* values observed in the raw records.
C15_EmptySelectionIsAllNonEmptyObserved ==
    Done /\ requestedCategories = {} =>
        pivotedData = PivotOf(processData(rawData, ObservedCategories \ {""}))

\* The empty selection on records of two categories and a record without a
\* category: the two categories are selected and the third record is out.
C15_Witness ==
    /\ Done
    /\ requestedCategories = {}
    /\ ObservedCategories = {"", "Bread", "Cake"}
    /\ allCategories = <<"Bread", "Cake">>
    /\ selectedCategories = {"Bread", "Cake"}
    /\ Len(cleanedData) = 2
    /\ Len(Rows) = 1

\* The export has been built from the pivot result of the state.
Exported == Done /\ aoa # <<>>

\* The slot list of the header tree, the same under every month.
ResolvedSlots ==
    IF Len(HeaderMonths) = 0 THEN <<>> ELSE HeaderSlots(1)

\* 2 + (months x slots x display brands).
MatrixWidth == 2 + Len(HeaderMonths) * Len(ResolvedSlots) * Len(DisplayBrands)

\* C19: for a pivot result with at least one row and every metric kind, the
\* month row, the slot row, the brand row and every data row of the matrix
\* built by downloadExcel have the length 2 + (months x slots x display
\* brands), also when the slot list or the display brand list is empty.
C19_MatrixRectangular ==
    Exported =>
        /\ Len(aoa) = 3 + Len(Rows)
        /\ \A i \in 1..Len(aoa) : Len(aoa[i]) = MatrixWidth

\* The matrix of an export with months, slots and display brands is
\* rectangular.
C19_RectangularWhenNonEmpty ==
    Exported /\ Len(ResolvedSlots) # 0 /\ Len(DisplayBrands) # 0 =>
        \A i \in 1..Len(aoa) : Len(aoa[i]) = MatrixWidth

\* The columns, counted from 0, of the labels of a header row of the matrix.
LabelColumns(cells) ==
    LET HoldsLabel(k) == cells[k + 1] # EmptyCell
    IN  SelectSeq([k \in 1..Len(cells) |-> k - 1], HoldsLabel)

\* The width of slot j of month i is its brand count, the width of month i
\* the sum of the widths of its slots.
SlotWidth(i, j) == Len(HeaderBrands(i, j))

MonthWidth(i) == SumOf([j \in 1..Len(HeaderSlots(i)) |-> SlotWidth(i, j)])

\* The slot labels before slot j of month i in row 1.
SlotsBefore(i, j) ==
    SumOf([k \in 1..(i - 1) |-> Len(HeaderSlots(k))]) + (j - 1)

MonthColumn(i) == LabelColumns(aoa[1])[i]

SlotColumn(i, j) == LabelColumns(aoa[2])[SlotsBefore(i, j) + 1]

SlotPositions ==
    UNION {{<<i, j>> : j \in 1..Len(HeaderSlots(i))} : i \in 1..Len(HeaderMonths)}

WideMonths == {i \in 1..Len(HeaderMonths) : MonthWidth(i) > 1}

WideSlots == {p \in SlotPositions : SlotWidth(p[1], p[2]) > 1}

ExpectedMerges ==
    {[s |-> [r |-> 0, c |-> MonthColumn(i)],
      e |-> [r |-> 0, c |-> MonthColumn(i) + MonthWidth(i) - 1]] : i \in WideMonths}
    \cup
    {[s |-> [r |-> 1, c |-> SlotColumn(p[1], p[2])],
      e |-> [r |-> 1, c |-> SlotColumn(p[1], p[2]) + SlotWidth(p[1], p[2]) - 1]] :
        p \in WideSlots}

\* C20: downloadExcel emits a merge span exactly for each month label of
\* row 0 and each slot label of row 1 that is wider than one column; the span
\* starts at the column of its label and ends at start + width - 1, spans of
\* one row do not overlap and a slot span lies in the column range of its
\* month.
C20_MergeSpans ==
    Exported =>
        /\ Range(merges) = ExpectedMerges
        /\ Len(merges) = Cardinality(WideMonths) + Cardinality(WideSlots)
        /\ \A a, b \in 1..Len(merges) :
               a # b /\ merges[a].s.r = merges[b].s.r =>
                   \/ merges[a].e.c < merges[b].s.c
                   \/ merges[b].e.c < merges[a].s.c
        /\ \A p \in WideSlots :
               /\ MonthColumn(p[1]) <= SlotColumn(p[1], p[2])
               /\ SlotColumn(p[1], p[2]) + SlotWidth(p[1], p[2]) - 1
                      <= MonthColumn(p[1]) + MonthWidth(p[1]) - 1

\* An export of two months of two slots of two display brands: two month
\* spans of four columns and four slot spans of two.
C20_Witness ==
    /\ Exported
    /\ Len(HeaderMonths) = 2
    /\ Len(ResolvedSlots) = 2
    /\ Len(DisplayBrands) = 2
    /\ Len(merges) = 6
    /\ merges[1] = [s |-> [r |-> 0, c |-> 2], e |-> [r |-> 0, c |-> 5]]
    /\ merges[2] = [s |-> [r |-> 0, c |-> 6], e |-> [r |-> 0, c |-> 9]]
    /\ merges[6] = [s |-> [r |-> 1, c |-> 8], e |-> [r |-> 1, c |-> 9]]

\* The nearest label at or left of column c, counted from 0, of a header row.
LabelAt(cells, c) ==
    LET at == CHOOSE k \in 0..c :
                  /\ k < Len(cells)
                  /\ cells[k + 1] # EmptyCell
                  /\ \A l \in (k + 1)..c : l < Len(cells) => cells[l + 1] = EmptyCell
    IN  cells[at + 1]

HasLabelAt(cells, c) ==
    \E k \in 0..c : k < Len(cells) /\ cells[k + 1] # EmptyCell

\* The selected metric of (month, slot, brand) in a pivot row, 0 if absent.
MetricOf(row, month, slot, brand) ==
    IF month \notin DOMAIN row.data THEN Zero
    ELSE IF slot \notin DOMAIN row.data[month] THEN Zero
    ELSE IF brand \notin DOMAIN row.data[month][slot] THEN Zero
    ELSE row.data[month][slot][brand][sovType]

\* cell is value rounded to 2 decimals: a multiple of 1/100 at a distance of
\* at most 1/200.
RoundedTo2(cell, value) ==
    /\ 100 % cell[2] = 0
    /\ 200 * Abs(cell[1] * value[2] - value[1] * cell[2]) <= cell[2] * value[2]

\* The leaf columns of the matrix, counted from 0.
LeafColumns == 2..(Len(aoa[3]) - 1)

\* C21: in every data row of the matrix built by downloadExcel, columns 0
\* and 1 hold the platform and the city of the pivot row, and the cell of
\* every leaf column c >= 2 is the selected metric, rounded to 2 decimals and
\* 0 if absent, of the brand label of row 2 at c, the nearest slot label of
\* row 1 at or left of c and the nearest month label of row 0 at or left of c.
C21_ExportRoundTrip ==
    Exported =>
        \A n \in 1..Len(Rows) :
            LET cells == aoa[3 + n]
            IN  /\ Len(cells) = Len(aoa[3])
                /\ cells[1] = Rows[n].platform
                /\ cells[2] = Rows[n].city
                /\ \A c \in LeafColumns :
                       /\ HasLabelAt(aoa[1], c)
                       /\ HasLabelAt(aoa[2], c)
                       /\ RoundedTo2(cells[c + 1],
                                     MetricOf(Rows[n], LabelAt(aoa[1], c),
                                              LabelAt(aoa[2], c), aoa[3][c + 1]))

\* An export of the ad metric over two months of two slots of two display
\* brands, with a cell that holds a share and a cell that holds 0.
C21_Witness ==
    /\ Exported
    /\ sovType = "Ad"
    /\ Len(HeaderMonths) = 2
    /\ Len(ResolvedSlots) = 2
    /\ Len(DisplayBrands) = 2
    /\ Len(Rows) = 2
    /\ \E c \in LeafColumns : aoa[4][c + 1] \notin {Zero, Frac(100, 1)}
    /\ \E c \in LeafColumns : aoa[4][c + 1] = Zero

\* Every fetch the effect has started, and every fetch it is about to
\* start, has completed, and none has failed.
AllFetchesSucceeded ==
    /\ Mounted
    /\ fetches.started > 0
    /\ fetches.inFlight = {}
    /\ fetches.failed = 0
    /\ ~dashboard.effectPending

\* C22: whatever the interleaving of selection changes and completions of
\* the fetches they start, once every started fetch has completed
\* successfully the Dashboard displays the result computed for the current
\* value of selectedCategories.
C22_DisplaysCurrentSelection ==
    AllFetchesSucceeded =>
        dashboard.pivotedData =
            PivotOf(fetchDataAndProcess(rawData, dashboard.selectedCategories))

\* C23: whenever a fetch started by the effect has not yet completed,
\* loading is true.
C23_LoadingWhileFetching ==
    fetches.inFlight # {} => dashboard.loading

====
